---------------------------- MODULE Spec2Model ----------------------------
(***************************************************************************)
(* Model of vad_transcribe.py: the interval merger                         *)
(* (merge_speech_segments_from_tuples), the on-disk checkpoint store       *)
(* (segments_cache.json, segment_NNNN.wav, segment_NNNN.json) and the      *)
(* segment driver loop of main() with transcribe_with_whisper's retry      *)
(* loop.  Times are integers in milliseconds.                              *)
(*                                                                         *)
(* The specifications:                                                     *)
(*   MergeSpec  the merger as a pure function over bounded inputs          *)
(*   SrtSpec    generate_srt as a pure function over bounded inputs        *)
(*   DetectSpec padding and merging of the detector's raw intervals        *)
(*   Spec       repeated runs of main() over one temp_continuous directory *)
(***************************************************************************)
EXTENDS Integers, Sequences, FiniteSets, TLC

(***************************************************************************)
(* Bounds of the model.                                                    *)
(***************************************************************************)
\* longest raw interval list handed to the merger
MaxLen == 3
\* interval endpoints are k * TimeStep for k in 0..MaxT
MaxT == 4
\* largest silence threshold, in seconds
MaxThr == 1
\* number of runs of main() on the same directory
MaxRuns == 2
\* longest all_segments list handed to generate_srt
MaxSrtSegs == 3
\* most transcript entries of one segment handed to generate_srt
MaxEntries == 2
\* longest raw interval list the VAD pipeline returns in DetectSpec
MaxRaw == 2

\* granularity of the interval endpoints of the merger's inputs, in ms
TimeStep == 500

VARIABLES
    \* ---- MergeSpec ----
    m_pc,          \* "in" | "merged" | "remerged"
    m_segments,    \* the input list of (start_ms, end_ms)
    m_threshold,   \* silence_threshold_sec
    m_out,         \* merge(m_segments, m_threshold)
    m_out2,        \* merge(m_out, m_threshold)
    \* ---- SrtSpec ----
    s_pc,          \* "in" | "written"
    s_results,     \* the all_segments list handed to generate_srt
    s_cues,        \* the cues generate_srt wrote
    \* ---- DetectSpec ----
    d_pc,          \* "in" | "detected"
    d_raw,         \* the raw intervals of the VAD pipeline
    d_pad,         \* speech_pad_ms
    d_threshold,   \* silence_threshold_sec
    d_padded,      \* speech_segments: the raw intervals after padding
    d_out,         \* merged_segments
    \* ---- Spec: the files of temp_continuous (they survive the process) ----
    cache,         \* segments_cache.json
    wav,           \* segment_NNNN.wav, by index
    json,          \* segment_NNNN.json, by index
    srt,           \* the subtitle file
    extracted_audio, \* extracted_audio.wav: what the VAD pipeline finds in it
    \* ---- Spec: the process running main() ----
    pc,            \* position of the process in main()
    run,           \* number of runs started
    force_redetect,
    silence_threshold, \* args.silence_threshold
    continuous_segments,
    i,
    all_segments,
    completed_count,
    skipped_count,
    failed_count,
    attempt,       \* loop variable of transcribe_with_whisper
    transcription_result,
    whisper_result,
    \* ---- Spec: observations of the current run ----
    slicerCalls,   \* calls of cut_audio_segment, by index
    engineCalls,   \* whisper subprocess runs, by index
    firstSuccess,  \* position of the first attempt that succeeded, 0 if none
    entryFile,     \* segment_NNNN.json as the driver found it, by index
    disp,          \* what the driver did with each index in this run
    \* ---- Spec: observations across runs ----
    prevEnd,       \* how the process before this one ended (its last pc)
    prevCues,      \* the cue list it wrote
    prevSegs,      \* the interval list it used
    prevEngine,    \* the engine's last outcome per index in it
    curEngine,     \* the engine's last outcome per index in this run
    engineSame,    \* the engine repeated its previous-run outcome so far
    reachedDone,   \* indices counted as newly transcribed in some run
    redone,        \* indices the engine ran on after they reached DONE
    startDisk,     \* the files as the current process found them
    detector,      \* "idle" | "answered" | "failed": the detector in this run
    jsonSrc        \* the interval of the slice segment_NNNN.json comes from

svars == <<s_pc, s_results, s_cues>>
dvars == <<d_pc, d_raw, d_pad, d_threshold, d_padded, d_out>>
mvars == <<m_pc, m_segments, m_threshold, m_out, m_out2, svars, dvars>>
diskvars == <<cache, wav, json, srt>>
procvars == <<pc, run, force_redetect, continuous_segments, i, all_segments,
              completed_count, skipped_count, failed_count, attempt,
              transcription_result, whisper_result>>
obsvars == <<slicerCalls, engineCalls, firstSuccess, entryFile, disp,
             prevEnd, prevCues, prevSegs, prevEngine, curEngine, engineSame,
             reachedDone, redone>>
xvars == <<extracted_audio, silence_threshold, startDisk, detector, jsonSrc>>
pvars == <<diskvars, procvars, obsvars, xvars>>
vars == <<mvars, pvars>>

Max(a, b) == IF a >= b THEN a ELSE b
Min(a, b) == IF a <= b THEN a ELSE b

(***************************************************************************)
(* sorted(segments, key=lambda x: x[0]): a stable sort on the start time.  *)
(* InsertByStart puts x behind every element whose start is <= x's start,  *)
(* so equal starts keep their input order.                                 *)
(***************************************************************************)
RECURSIVE InsertByStart(_, _)
InsertByStart(x, s) ==
    IF s = <<>> THEN <<x>>
    ELSE IF x[1] < s[1][1] THEN <<x>> \o s
    ELSE <<s[1]>> \o InsertByStart(x, Tail(s))

RECURSIVE SortedByStart(_)
SortedByStart(s) ==
    IF s = <<>> THEN <<>>
    ELSE InsertByStart(s[Len(s)], SortedByStart(SubSeq(s, 1, Len(s) - 1)))

(***************************************************************************)
(* The sweep of merge_speech_segments_from_tuples: iterations k..len-1 of  *)
(* the for loop with the running (current_start, current_end) in cur and   *)
(* merged_segments in acc, then the final append.                          *)
(***************************************************************************)
RECURSIVE Sweep(_, _, _, _, _)
Sweep(segs, k, cur, acc, thr_ms) ==
    IF k > Len(segs) THEN Append(acc, cur)
    ELSE LET nxt == segs[k] IN
         IF (nxt[1] - cur[2]) < thr_ms
         THEN Sweep(segs, k + 1, <<cur[1], Max(cur[2], nxt[2])>>, acc, thr_ms)
         ELSE Sweep(segs, k + 1, nxt, Append(acc, cur), thr_ms)

\* mutant: the gap test is <= instead of <
RECURSIVE Sweep_Le(_, _, _, _, _)
Sweep_Le(segs, k, cur, acc, thr_ms) ==
    IF k > Len(segs) THEN Append(acc, cur)
    ELSE LET nxt == segs[k] IN
         IF (nxt[1] - cur[2]) <= thr_ms
         THEN Sweep_Le(segs, k + 1, <<cur[1], Max(cur[2], nxt[2])>>, acc, thr_ms)
         ELSE Sweep_Le(segs, k + 1, nxt, Append(acc, cur), thr_ms)

merge_LeGap(segments, silence_threshold_sec) ==
    IF segments = <<>> THEN <<>>
    ELSE LET s == SortedByStart(segments) IN
         Sweep_Le(s, 2, s[1], <<>>, silence_threshold_sec * 1000)

\* mutant: the final append of the running interval is forgotten
RECURSIVE Sweep_NoLast(_, _, _, _, _)
Sweep_NoLast(segs, k, cur, acc, thr_ms) ==
    IF k > Len(segs) THEN acc
    ELSE LET nxt == segs[k] IN
         IF (nxt[1] - cur[2]) < thr_ms
         THEN Sweep_NoLast(segs, k + 1, <<cur[1], Max(cur[2], nxt[2])>>, acc, thr_ms)
         ELSE Sweep_NoLast(segs, k + 1, nxt, Append(acc, cur), thr_ms)

merge_NoLast(segments, silence_threshold_sec) ==
    IF segments = <<>> THEN <<>>
    ELSE LET s == SortedByStart(segments) IN
         Sweep_NoLast(s, 2, s[1], <<>>, silence_threshold_sec * 1000)

\* mutant: on a merge current_end becomes next_end, without the max
RECURSIVE Sweep_NoMax(_, _, _, _, _)
Sweep_NoMax(segs, k, cur, acc, thr_ms) ==
    IF k > Len(segs) THEN Append(acc, cur)
    ELSE LET nxt == segs[k] IN
         IF (nxt[1] - cur[2]) < thr_ms
         THEN Sweep_NoMax(segs, k + 1, <<cur[1], nxt[2]>>, acc, thr_ms)
         ELSE Sweep_NoMax(segs, k + 1, nxt, Append(acc, cur), thr_ms)

merge_NoMax(segments, silence_threshold_sec) ==
    IF segments = <<>> THEN <<>>
    ELSE LET s == SortedByStart(segments) IN
         Sweep_NoMax(s, 2, s[1], <<>>, silence_threshold_sec * 1000)

\* mutant: the operands of the gap are swapped (current_end - next_start)
RECURSIVE Sweep_Swapped(_, _, _, _, _)
Sweep_Swapped(segs, k, cur, acc, thr_ms) ==
    IF k > Len(segs) THEN Append(acc, cur)
    ELSE LET nxt == segs[k] IN
         IF (cur[2] - nxt[1]) < thr_ms
         THEN Sweep_Swapped(segs, k + 1, <<cur[1], Max(cur[2], nxt[2])>>, acc, thr_ms)
         ELSE Sweep_Swapped(segs, k + 1, nxt, Append(acc, cur), thr_ms)

merge_Swapped(segments, silence_threshold_sec) ==
    IF segments = <<>> THEN <<>>
    ELSE LET s == SortedByStart(segments) IN
         Sweep_Swapped(s, 2, s[1], <<>>, silence_threshold_sec * 1000)

(***************************************************************************)
(* merge_speech_segments_from_tuples(segments, silence_threshold_sec)      *)
(***************************************************************************)
merge_speech_segments_from_tuples(segments, silence_threshold_sec) ==
    IF segments = <<>> THEN <<>>
    ELSE LET s == SortedByStart(segments) IN
         Sweep(s, 2, s[1], <<>>, silence_threshold_sec * 1000)

(***************************************************************************)
(* Files.  A file is absent, or exists with a sequence of tokens as its    *)
(* content; its size is the length of the content.                         *)
(***************************************************************************)
Absent == [exists |-> FALSE, data |-> <<>>]
File(content) == [exists |-> TRUE, data |-> content]

\* os.path.join(output_dir, f"segment_{segment_index:04d}.json")
JsonFileOf(segment_index, output_dir) ==
    IF segment_index \in DOMAIN output_dir THEN output_dir[segment_index] ELSE Absent

(***************************************************************************)
(* Transcripts.  A transcript entry is {start, end, text} with the times   *)
(* in seconds relative to the slice and the text a sequence of characters. *)
(***************************************************************************)
\* "e-acute" stands for a character outside ASCII
AsciiChars == {"h", " "}
EntryHi == [start |-> 0, end |-> 1, text |-> <<" ", "h", "e-acute">>]
EntryBlank == [start |-> 1, end |-> 2, text |-> <<" ">>]
Transcripts == {<<>>, <<EntryHi>>, <<EntryBlank, EntryHi>>}
EmptyResult == [segments |-> <<>>]

(***************************************************************************)
(* json.dump / json.load of a whisper result.  With ensure_ascii a         *)
(* character outside ASCII is written as its \uXXXX escape; json.load      *)
(* turns the escape back into the character.  A content that is not a      *)
(* complete object (empty, or cut short) does not load.                    *)
(***************************************************************************)
Escape(c, ensure_ascii) ==
    IF ensure_ascii /\ c \notin AsciiChars THEN <<"\\u", c>> ELSE <<c>>

RECURSIVE EscapeText(_, _)
EscapeText(text, ensure_ascii) ==
    IF text = <<>> THEN <<>>
    ELSE Escape(text[1], ensure_ascii) \o EscapeText(Tail(text), ensure_ascii)

RECURSIVE UnescapeText(_)
UnescapeText(chars) ==
    IF chars = <<>> THEN <<>>
    ELSE IF chars[1] = "\\u" /\ Len(chars) >= 2
         THEN <<chars[2]>> \o UnescapeText(SubSeq(chars, 3, Len(chars)))
         ELSE <<chars[1]>> \o UnescapeText(Tail(chars))

OpenTok == [t |-> "{"]
CloseTok == [t |-> "}"]
EntryTok(e, ensure_ascii) ==
    [t |-> "segment", start |-> e.start, end |-> e.end,
     chars |-> EscapeText(e.text, ensure_ascii)]

JsonDump(result, ensure_ascii) ==
    <<OpenTok>>
    \o [k \in 1..Len(result.segments) |-> EntryTok(result.segments[k], ensure_ascii)]
    \o <<CloseTok>>

JsonWellFormed(content) ==
    /\ Len(content) >= 2
    /\ content[1] = OpenTok
    /\ content[Len(content)] = CloseTok

\* json.load: [ok |-> FALSE] stands for the exception
JsonLoad(file) ==
    IF file.exists /\ JsonWellFormed(file.data)
    THEN [ok |-> TRUE,
          result |-> [segments |->
              [k \in 1..(Len(file.data) - 2) |->
                  [start |-> file.data[k + 1].start,
                   end |-> file.data[k + 1].end,
                   text |-> UnescapeText(file.data[k + 1].chars)]]]]
    ELSE [ok |-> FALSE, result |-> EmptyResult]

\* the contents a write of `content` can leave behind when it is cut short
ProperPrefixes(content) == {SubSeq(content, 1, n) : n \in 1..(Len(content) - 1)}

(***************************************************************************)
(* json.dump / json.load of the interval list of segments_cache.json: a    *)
(* list of [start, end] pairs.                                             *)
(***************************************************************************)
ListOpenTok == [t |-> "["]
ListCloseTok == [t |-> "]"]
PairTok(seg) == [t |-> "pair", start |-> seg[1], end |-> seg[2]]

CacheDump(segments) ==
    <<ListOpenTok>>
    \o [k \in 1..Len(segments) |-> PairTok(segments[k])]
    \o <<ListCloseTok>>

CacheWellFormed(content) ==
    /\ Len(content) >= 2
    /\ content[1] = ListOpenTok
    /\ content[Len(content)] = ListCloseTok

\* json.load and [tuple(seg) for seg in segments]; ok = FALSE: the exception
CacheLoad(file) ==
    IF file.exists /\ CacheWellFormed(file.data)
    THEN [ok |-> TRUE,
          segments |-> [k \in 1..(Len(file.data) - 2) |->
                           <<file.data[k + 1].start, file.data[k + 1].end>>]]
    ELSE [ok |-> FALSE, segments |-> <<>>]

(***************************************************************************)
(* check_segment_completed and load_existing_result                        *)
(***************************************************************************)
\* mutant: the file name is built from the 1-based segment number
check_segment_completed_OffByOne(segment_index, output_dir) ==
    LET f == JsonFileOf(segment_index + 1, output_dir) IN
    f.exists /\ Len(f.data) > 0

check_segment_completed(segment_index, output_dir) ==
    LET f == JsonFileOf(segment_index, output_dir) IN
    f.exists /\ Len(f.data) > 0

\* mutant: the loaded result is dropped and the fallback returned
load_existing_result_Fallback(segment_index, output_dir) == EmptyResult

load_existing_result(segment_index, output_dir) ==
    LET r == JsonLoad(JsonFileOf(segment_index, output_dir)) IN
    IF r.ok THEN r.result ELSE EmptyResult

(***************************************************************************)
(* generate_srt: the cue list written to the subtitle file.                *)
(***************************************************************************)
IsSpace(c) == c = " "

RECURSIVE LStrip(_)
LStrip(text) ==
    IF text # <<>> /\ IsSpace(text[1]) THEN LStrip(Tail(text)) ELSE text

RECURSIVE RStrip(_)
RStrip(text) ==
    IF text # <<>> /\ IsSpace(text[Len(text)])
    THEN RStrip(SubSeq(text, 1, Len(text) - 1)) ELSE text

Strip(text) == RStrip(LStrip(text))

\* milliseconds_to_srt_time: the fields of HH:MM:SS,mmm
milliseconds_to_srt_time(ms) ==
    LET hours == ms \div 3600000
        ms1 == ms % 3600000
        minutes == ms1 \div 60000
        ms2 == ms1 % 60000
        seconds == ms2 \div 1000
        milliseconds == ms2 % 1000
    IN <<hours, minutes, seconds, milliseconds>>

\* one block of the file: index line, timing line, text line
Cue(subtitle_index, start_ms, end_ms, text) ==
    [index |-> subtitle_index,
     start |-> milliseconds_to_srt_time(start_ms),
     end |-> milliseconds_to_srt_time(end_ms),
     text |-> text]

\* mutant: subtitle_index is advanced for a blank entry too
RECURSIVE SegmentCues_CountsBlank(_, _, _, _)
SegmentCues_CountsBlank(segment_start_ms, entries, k, subtitle_index) ==
    IF k > Len(entries) THEN <<>>
    ELSE LET start_ms == segment_start_ms + (entries[k].start * 1000)
             end_ms == segment_start_ms + (entries[k].end * 1000)
             text == Strip(entries[k].text)
         IN IF text # <<>>
            THEN <<Cue(subtitle_index, start_ms, end_ms, text)>>
                 \o SegmentCues_CountsBlank(segment_start_ms, entries, k + 1,
                                            subtitle_index + 1)
            ELSE SegmentCues_CountsBlank(segment_start_ms, entries, k + 1,
                                         subtitle_index + 1)

\* mutant: the segment's start is not added to the entry's times
RECURSIVE SegmentCues_NoOffset(_, _, _, _)
SegmentCues_NoOffset(segment_start_ms, entries, k, subtitle_index) ==
    IF k > Len(entries) THEN <<>>
    ELSE LET start_ms == entries[k].start * 1000
             end_ms == entries[k].end * 1000
             text == Strip(entries[k].text)
         IN IF text # <<>>
            THEN <<Cue(subtitle_index, start_ms, end_ms, text)>>
                 \o SegmentCues_NoOffset(segment_start_ms, entries, k + 1,
                                         subtitle_index + 1)
            ELSE SegmentCues_NoOffset(segment_start_ms, entries, k + 1,
                                      subtitle_index)

\* the inner loop: the cues of one seg_info, numbered from subtitle_index
RECURSIVE SegmentCues(_, _, _, _)
SegmentCues(segment_start_ms, entries, k, subtitle_index) ==
    IF k > Len(entries) THEN <<>>
    ELSE LET start_ms == segment_start_ms + (entries[k].start * 1000)
             end_ms == segment_start_ms + (entries[k].end * 1000)
             text == Strip(entries[k].text)
         IN IF text # <<>>
            THEN <<Cue(subtitle_index, start_ms, end_ms, text)>>
                 \o SegmentCues(segment_start_ms, entries, k + 1, subtitle_index + 1)
            ELSE SegmentCues(segment_start_ms, entries, k + 1, subtitle_index)

\* the outer loop over all_segments
RECURSIVE SrtFrom(_, _, _)
SrtFrom(segs, k, subtitle_index) ==
    IF k > Len(segs) THEN <<>>
    ELSE LET cues == SegmentCues(segs[k].segment_start_ms,
                                 segs[k].whisper_result.segments, 1, subtitle_index)
         IN cues \o SrtFrom(segs, k + 1, subtitle_index + Len(cues))

generate_srt(segs) == SrtFrom(segs, 1, 1)

(***************************************************************************)
(* The run: arguments, detector and loop helpers.                          *)
(***************************************************************************)
\* max_retries of transcribe_with_whisper
MaxRetries == 3

\* the arguments of the modelled runs and the length of the audio, in ms
SilenceThreshold == 1
SpeechPad == 500
AudioLength == 4000

\* what the VAD pipeline can return for the audio: raw (start_ms, end_ms)
DetectorOutputs ==
    { <<>>,
      << <<500, 1000>> >>,
      << <<500, 1000>>, <<3000, 3500>> >>,
      << <<1000, 1500>>, <<3000, 3500>> >> }

Padded_NoClamp(seg, speech_pad_ms, audio_length_ms) ==
    <<seg[1] - speech_pad_ms, seg[2] + speech_pad_ms>>

\* lines 117-118: padding clamped to the audio
Padded(seg, speech_pad_ms, audio_length_ms) ==
    <<Max(0, seg[1] - speech_pad_ms), Min(audio_length_ms, seg[2] + speech_pad_ms)>>

\* lines 112-120: the padded intervals, in the order of the raw ones
SpeechSegments(raw, speech_pad_ms, audio_length_ms) ==
    [k \in 1..Len(raw) |-> Padded(raw[k], speech_pad_ms, audio_length_ms)]

\* detect_continuous_speech_segments after the VAD pipeline has answered raw
DetectedSegments(raw, silence_threshold_sec, speech_pad_ms) ==
    LET speech_segments == SpeechSegments(raw, speech_pad_ms, AudioLength)
    IN IF speech_segments = <<>> THEN <<>>
       ELSE merge_speech_segments_from_tuples(speech_segments, silence_threshold_sec)

MaxOf(S) == CHOOSE x \in S : \A y \in S : y <= x
\* the segment indices the modelled runs can reach
Idx == 0..(MaxOf({Len(d) : d \in DetectorOutputs}) - 1)

\* for attempt in range(max_retries): is there another iteration
\* mutant: one iteration too many
HasNextAttempt_OneMore(att, max_retries) == att + 1 < max_retries + 1

HasNextAttempt(att, max_retries) == att + 1 < max_retries

\* the file left by lines 294-295 (reopened for writing, then json.dump)
\* mutant: the file is reopened for writing and nothing is dumped
Rewritten_Truncated(result) == <<>>

Rewritten(result) == JsonDump(result, FALSE)

\* lines 478-483
\* mutant: a segment with nothing recognised is left out of the list
AppendSegment_SkipEmpty(segs, index, iv, result) ==
    IF result.segments = <<>> THEN segs
    ELSE Append(segs, [segment_index |-> index, segment_start_ms |-> iv[1],
                       segment_end_ms |-> iv[2], whisper_result |-> result])

AppendSegment(segs, index, iv, result) ==
    Append(segs, [segment_index |-> index, segment_start_ms |-> iv[1],
                  segment_end_ms |-> iv[2], whisper_result |-> result])

NoOutcome == [kind |-> "none", result |-> EmptyResult]
NoFile == [seen |-> FALSE, file |-> Absent]

\* no process: the state of the process and of the run's observations
ProcessOff ==
    /\ force_redetect = FALSE
    /\ continuous_segments = <<>>
    /\ i = 0
    /\ all_segments = <<>>
    /\ completed_count = 0
    /\ skipped_count = 0
    /\ failed_count = 0
    /\ attempt = 0
    /\ transcription_result = EmptyResult
    /\ whisper_result = EmptyResult
    /\ slicerCalls = [x \in Idx |-> 0]
    /\ engineCalls = [x \in Idx |-> 0]
    /\ firstSuccess = 0
    /\ entryFile = [x \in Idx |-> NoFile]
    /\ disp = [x \in Idx |-> "none"]

SrtIdle ==
    /\ s_pc = "in"
    /\ s_results = <<>>
    /\ s_cues = <<>>

DetectIdle ==
    /\ d_pc = "in"
    /\ d_raw = <<>>
    /\ d_pad = 0
    /\ d_threshold = 0
    /\ d_padded = <<>>
    /\ d_out = <<>>

MergeIdle ==
    /\ m_pc = "in"
    /\ m_segments = <<>>
    /\ m_threshold = 0
    /\ m_out = <<>>
    /\ m_out2 = <<>>

NoDisk == [cache |-> Absent, wav |-> [x \in Idx |-> Absent],
           json |-> [x \in Idx |-> Absent], srt |-> Absent]

PipelineIdle ==
    /\ extracted_audio = Absent
    /\ silence_threshold = SilenceThreshold
    /\ startDisk = NoDisk
    /\ detector = "idle"
    /\ jsonSrc = [x \in Idx |-> <<>>]
    /\ cache = Absent
    /\ wav = [x \in Idx |-> Absent]
    /\ json = [x \in Idx |-> Absent]
    /\ srt = Absent
    /\ pc = "off"
    /\ run = 0
    /\ ProcessOff
    /\ prevEnd = "off"
    /\ prevCues = <<>>
    /\ prevSegs = <<>>
    /\ prevEngine = [x \in Idx |-> NoOutcome]
    /\ curEngine = [x \in Idx |-> NoOutcome]
    /\ engineSame = TRUE
    /\ reachedDone = {}
    /\ redone = {}

(***************************************************************************)
(* MergeSpec: the merger applied to every bounded input, and again to its  *)
(* own output.                                                             *)
(***************************************************************************)
TimePoints == {k * TimeStep : k \in 0..MaxT}
\* Interval of the data model: start_ms < end_ms
Intervals == {iv \in TimePoints \X TimePoints : iv[1] < iv[2]}
\* --silence-threshold is any float: negative, zero and positive values
Thresholds == (-1)..MaxThr

SeqsUpTo(S, n) == UNION {[1..k -> S] : k \in 0..n}

MergeInit ==
    /\ m_pc = "in"
    /\ m_segments \in SeqsUpTo(Intervals, MaxLen)
    /\ m_threshold \in Thresholds
    /\ m_out = <<>>
    /\ m_out2 = <<>>
    /\ SrtIdle
    /\ DetectIdle
    /\ PipelineIdle

MergeOnce ==
    /\ m_pc = "in"
    /\ m_out' = merge_speech_segments_from_tuples(m_segments, m_threshold)
    /\ m_pc' = "merged"
    /\ UNCHANGED <<m_segments, m_threshold, m_out2, svars, dvars, pvars>>

MergeAgain ==
    /\ m_pc = "merged"
    /\ m_out2' = merge_speech_segments_from_tuples(m_out, m_threshold)
    /\ m_pc' = "remerged"
    /\ UNCHANGED <<m_segments, m_threshold, m_out, svars, dvars, pvars>>

MergeNext == MergeOnce \/ MergeAgain

MergeSpec == MergeInit /\ [][MergeNext]_vars

(***************************************************************************)
(* Properties of the merger (checked under MergeSpec).                     *)
(***************************************************************************)
\* some interval of list covers the cell [k*TimeStep, (k+1)*TimeStep)
Covers(list, k) ==
    \E j \in 1..Len(list) :
        list[j][1] <= k * TimeStep /\ (k + 1) * TimeStep <= list[j][2]

\* two half-open intervals share a time point
Overlap(a, b) == a[1] < b[2] /\ b[1] < a[2]

NoOverlap(list) ==
    \A j \in 1..Len(list) : \A k \in 1..Len(list) :
        j < k => ~Overlap(list[j], list[k])

\* C7: two intervals given in sorted order whose gap equals the threshold
\* exactly stay two separate output intervals; with a gap strictly below the
\* threshold they become one interval ending at the larger of the two ends.
C7_BoundaryStrictness ==
    (m_pc # "in" /\ Len(m_segments) = 2 /\ m_segments[1][1] <= m_segments[2][1]) =>
        LET a == m_segments[1]
            b == m_segments[2]
            gap == b[1] - a[2]
            thr_ms == m_threshold * 1000
        IN /\ (gap = thr_ms) => m_out = <<a, b>>
           /\ (gap < thr_ms) => m_out = << <<a[1], Max(a[2], b[2])>> >>

C7_Witness ==
    /\ m_pc = "merged"
    /\ Len(m_segments) = 2
    /\ m_segments[1][1] <= m_segments[2][1]
    /\ m_threshold = 1
    /\ m_segments[2][1] - m_segments[1][2] = 1000
    /\ Len(m_out) = 2

\* C8: merging the merger's own output with the same threshold changes
\* nothing: merge(merge(L, t), t) = merge(L, t).
C8_MergeIdempotent == (m_pc = "remerged") => (m_out2 = m_out)

C8_Witness ==
    /\ m_pc = "remerged"
    /\ Len(m_segments) = 3
    /\ Len(m_out) = 2
    /\ m_segments # m_out

\* C9: every cell of time covered by an input interval is covered by an
\* output interval; the empty list gives the empty list and a one-interval
\* list is returned unchanged.
C9_MergeCoverage ==
    (m_pc # "in") =>
        /\ \A k \in 0..(MaxT - 1) : Covers(m_segments, k) => Covers(m_out, k)
        /\ (m_segments = <<>>) => (m_out = <<>>)
        /\ (Len(m_segments) = 1) => (m_out = m_segments)

C9_Witness ==
    /\ m_pc = "merged"
    /\ Len(m_segments) = 3
    /\ Len(m_out) = 1
    /\ m_segments[1][2] > m_segments[2][2]
    /\ m_out[1][2] = m_segments[1][2]

\* C10 as stated: for every threshold, the output intervals never overlap
\* each other.
C10_NoOverlapAnyThreshold == (m_pc # "in") => NoOverlap(m_out)

\* C10 amended: for every threshold >= 0, the output intervals never overlap
\* each other (a negative threshold keeps overlapping intervals apart).
C10_NoOverlapNonNegative ==
    (m_pc # "in" /\ m_threshold >= 0) => NoOverlap(m_out)

C10_Witness ==
    /\ m_pc = "merged"
    /\ m_threshold >= 0
    /\ \E j \in 1..Len(m_segments) : \E k \in 1..Len(m_segments) :
           j < k /\ Overlap(m_segments[j], m_segments[k])
    /\ Len(m_out) >= 2

(***************************************************************************)
(* SrtSpec: generate_srt applied to every bounded all_segments list.  The  *)
(* entry at position j of a transcript spans second j-1 to second j of its *)
(* slice, and the segment at position k starts at SegmentStartAt(k), so a  *)
(* cue's timing tells which entry of which segment it came from.           *)
(***************************************************************************)
TextHi == <<" ", "h", "e-acute">>
TextBlank == <<" ">>
EntryAt(j, text) == [start |-> j - 1, end |-> j, text |-> text]
SrtTranscripts ==
    UNION {{[j \in 1..n |-> EntryAt(j, texts[j])] :
                texts \in [1..n -> {TextHi, TextBlank}]} : n \in 0..MaxEntries}

\* 0, then 1 h 1 min 1.5 s apart
SegmentStartAt(k) == (k - 1) * 3661500

\* the all_segments list of n segments with the transcripts ts[1..n]
SrtInput(n, ts) ==
    [k \in 1..n |->
        [segment_index |-> k - 1,
         segment_start_ms |-> SegmentStartAt(k),
         segment_end_ms |-> SegmentStartAt(k) + (MaxEntries * 1000),
         whisper_result |-> [segments |-> ts[k]]]]

SrtInit ==
    /\ s_pc = "in"
    /\ \E n \in 0..MaxSrtSegs :
           \E ts \in [1..n -> SrtTranscripts] : s_results = SrtInput(n, ts)
    /\ s_cues = <<>>
    /\ MergeIdle
    /\ DetectIdle
    /\ PipelineIdle

WriteCues ==
    /\ s_pc = "in"
    /\ s_cues' = generate_srt(s_results)
    /\ s_pc' = "written"
    /\ UNCHANGED <<s_results, m_pc, m_segments, m_threshold, m_out, m_out2,
                   dvars, pvars>>

SrtNext == WriteCues

SrtSpec == SrtInit /\ [][SrtNext]_vars

(***************************************************************************)
(* Properties of generate_srt (checked under SrtSpec).                     *)
(***************************************************************************)
\* the (segment, entry) positions whose stripped text is not empty
Voiced(results) ==
    {p \in (1..Len(results)) \X (1..MaxEntries) :
        /\ p[2] <= Len(results[p[1]].whisper_result.segments)
        /\ Strip(results[p[1]].whisper_result.segments[p[2]].text) # <<>>}

\* position p comes before or is position q, in interval order and then in
\* transcript-entry order
Before(p, q) == p[1] < q[1] \/ (p[1] = q[1] /\ p[2] <= q[2])

\* the n-th voiced position
NthVoiced(results, n) ==
    CHOOSE p \in Voiced(results) :
        Cardinality({q \in Voiced(results) : Before(q, p)}) = n

\* the time a timing field stands for, in ms
SrtTimeMs(t) == (t[1] * 3600000) + (t[2] * 60000) + (t[3] * 1000) + t[4]

\* C11: the cues are numbered 1..N without gaps, N being the number of
\* transcript entries whose stripped text is not empty; blank entries give
\* no cue and use no number; the n-th cue carries the stripped text of the
\* n-th such entry in interval order and, within a segment, entry order.
C11_CueNumbering ==
    (s_pc = "written") =>
        /\ Len(s_cues) = Cardinality(Voiced(s_results))
        /\ \A n \in 1..Len(s_cues) :
            LET p == NthVoiced(s_results, n)
                entry == s_results[p[1]].whisper_result.segments[p[2]]
            IN /\ s_cues[n].index = n
               /\ s_cues[n].text = Strip(entry.text)
               /\ s_cues[n].text # <<>>
               /\ (n > 1) =>
                    SrtTimeMs(s_cues[n - 1].start) < SrtTimeMs(s_cues[n].start)

\* segments with 2, 0 and 1 voiced entries, the last one behind a blank entry
C11_Witness ==
    /\ s_pc = "written"
    /\ Len(s_results) = 3
    /\ Len(s_results[1].whisper_result.segments) = 2
    /\ s_results[2].whisper_result.segments = <<>>
    /\ Len(s_results[3].whisper_result.segments) = 2
    /\ Strip(s_results[3].whisper_result.segments[1].text) = <<>>
    /\ Len(s_cues) = 3
    /\ s_cues[3].index = 3
    /\ s_cues[3].start = milliseconds_to_srt_time(SegmentStartAt(3) + 1000)

\* C12: the timing of every cue is the start of the interval its entry's
\* segment belongs to plus the entry's start, and likewise its end, the
\* entry's seconds taken times 1000.
C12_TimestampTranslation ==
    (s_pc = "written" /\ Len(s_cues) = Cardinality(Voiced(s_results))) =>
        \A n \in 1..Len(s_cues) :
            LET p == NthVoiced(s_results, n)
                seg == s_results[p[1]]
                entry == seg.whisper_result.segments[p[2]]
            IN /\ SrtTimeMs(s_cues[n].start) =
                      seg.segment_start_ms + (entry.start * 1000)
               /\ SrtTimeMs(s_cues[n].end) =
                      seg.segment_start_ms + (entry.end * 1000)
               /\ s_cues[n].start[2] \in 0..59
               /\ s_cues[n].start[3] \in 0..59
               /\ s_cues[n].start[4] \in 0..999

\* a cue of the second segment: 1:01:01,500 plus 1 s .. 2 s
C12_Witness ==
    /\ s_pc = "written"
    /\ Len(s_results) >= 2
    /\ \E n \in 1..Len(s_cues) :
        /\ s_cues[n].start = <<1, 1, 2, 500>>
        /\ s_cues[n].end = <<1, 1, 3, 500>>

(***************************************************************************)
(* DetectSpec: detect_continuous_speech_segments from the answer of the    *)
(* VAD pipeline on: every bounded raw list, pad and threshold.             *)
(***************************************************************************)
\* the raw intervals lie inside the audio, with start_ms < end_ms
RawPoints == {k * TimeStep : k \in 0..(AudioLength \div TimeStep)} \cup {AudioLength}
RawIntervals == {iv \in RawPoints \X RawPoints : iv[1] < iv[2]}
\* --speech-pad is any int: negative, zero and positive values
Pads == {-SpeechPad, 0, SpeechPad}

DetectInit ==
    /\ d_pc = "in"
    /\ \E n \in 0..MaxRaw : d_raw \in [1..n -> RawIntervals]
    /\ d_pad \in Pads
    /\ d_threshold \in {0, SilenceThreshold}
    /\ d_padded = <<>>
    /\ d_out = <<>>
    /\ MergeIdle
    /\ SrtIdle
    /\ PipelineIdle

\* lines 112-132: pad every raw interval, then sort and merge
PadAndMerge ==
    /\ d_pc = "in"
    /\ d_padded' = SpeechSegments(d_raw, d_pad, AudioLength)
    /\ d_out' = DetectedSegments(d_raw, d_threshold, d_pad)
    /\ d_pc' = "detected"
    /\ UNCHANGED <<d_raw, d_pad, d_threshold, m_pc, m_segments, m_threshold,
                   m_out, m_out2, svars, pvars>>

DetectNext == PadAndMerge

DetectSpec == DetectInit /\ [][DetectNext]_vars

InAudio(iv) == 0 <= iv[1] /\ iv[2] <= AudioLength

\* C13: every raw interval, once padded, has start >= 0 and end <=
\* audio_length_ms, whatever the pad; the padded list is made from the raw
\* list interval by interval before the merge, so the merged intervals lie
\* in the same range and intervals that padding brought closer than the
\* threshold are merged.
C13_PaddingClamp ==
    d_pc = "detected" =>
        /\ Len(d_padded) = Len(d_raw)
        /\ \A k \in 1..Len(d_padded) :
              /\ InAudio(d_padded[k])
              /\ d_padded[k][1] \in {0, d_raw[k][1] - d_pad}
              /\ d_padded[k][2] \in {AudioLength, d_raw[k][2] + d_pad}
        /\ d_out = merge_speech_segments_from_tuples(d_padded, d_threshold)
        /\ \A k \in 1..Len(d_out) : InAudio(d_out[k])
        /\ \A k \in 1..(Len(d_out) - 1) :
              d_out[k + 1][1] - d_out[k][2] >= d_threshold * 1000

\* two raw intervals at both ends of the audio, too far apart to be merged
\* as they are, are clamped at 0 and at the end and merged into one
C13_Witness ==
    /\ d_pc = "detected"
    /\ d_pad > 0
    /\ Len(d_raw) = 2
    /\ d_raw[1][1] = 0
    /\ d_raw[2][2] = AudioLength
    /\ d_raw[2][1] - d_raw[1][2] >= d_threshold * 1000
    /\ d_out = << <<0, AudioLength>> >>

(***************************************************************************)
(* Spec: runs of main() on one temp_continuous directory.                  *)
(***************************************************************************)
Init ==
    /\ MergeIdle
    /\ SrtIdle
    /\ DetectIdle
    /\ PipelineIdle

Stopped == {"off", "done", "nospeech", "detect_failed", "slice_failed", "killed"}

ResetRun ==
    /\ i' = 0
    /\ all_segments' = <<>>
    /\ completed_count' = 0
    /\ skipped_count' = 0
    /\ failed_count' = 0
    /\ attempt' = 0
    /\ transcription_result' = EmptyResult
    /\ whisper_result' = EmptyResult
    /\ slicerCalls' = [x \in Idx |-> 0]
    /\ engineCalls' = [x \in Idx |-> 0]
    /\ firstSuccess' = 0
    /\ entryFile' = [x \in Idx |-> NoFile]
    /\ disp' = [x \in Idx |-> "none"]

\* mutant: the cache is never used
load_segments_cache_Ignored(cache_file) == [none |-> TRUE, segments |-> <<>>]

\* load_segments_cache: the list, or None when the file is absent or does
\* not load
load_segments_cache(cache_file) ==
    LET r == CacheLoad(cache_file) IN
    IF cache_file.exists /\ r.ok THEN [none |-> FALSE, segments |-> r.segments]
    ELSE [none |-> TRUE, segments |-> <<>>]

\* the values of --silence-threshold of the modelled runs
SilenceThresholds == {SilenceThreshold, SilenceThreshold + 1}

\* main() up to the detection step: a new process starts, with or without
\* --force-redetect, and takes the interval list from the cache if it may
StartRun ==
    /\ pc \in Stopped
    /\ run < MaxRuns
    /\ run' = run + 1
    /\ silence_threshold' \in SilenceThresholds
    /\ IF extracted_audio.exists THEN UNCHANGED extracted_audio
       ELSE \E raw \in DetectorOutputs : extracted_audio' = File(raw)
    /\ startDisk' = [cache |-> cache, wav |-> wav, json |-> json, srt |-> srt]
    /\ detector' = "idle"
    /\ \E f \in BOOLEAN :
        LET loaded == IF f THEN [none |-> TRUE, segments |-> <<>>]
                      ELSE load_segments_cache(cache)
        IN /\ force_redetect' = f
           /\ continuous_segments' = loaded.segments
           /\ pc' = IF loaded.none THEN "detect"
                    ELSE IF loaded.segments = <<>> THEN "nospeech"
                    ELSE "loop"
    /\ ResetRun
    /\ prevEnd' = pc
    /\ prevCues' = IF pc = "done" THEN srt.data ELSE <<>>
    /\ prevSegs' = IF pc = "done" THEN continuous_segments ELSE <<>>
    /\ prevEngine' = IF pc = "done" THEN curEngine ELSE [x \in Idx |-> NoOutcome]
    /\ curEngine' = [x \in Idx |-> NoOutcome]
    /\ engineSame' = TRUE
    /\ UNCHANGED <<diskvars, reachedDone, redone, mvars, jsonSrc>>

\* lines 421-425: detect_continuous_speech_segments answers
Detect ==
    /\ pc = "detect"
    /\ continuous_segments' =
           DetectedSegments(extracted_audio.data, silence_threshold, SpeechPad)
    /\ detector' = "answered"
    /\ pc' = "save_cache"
    /\ UNCHANGED <<diskvars, run, force_redetect, i, all_segments,
                   completed_count, skipped_count, failed_count, attempt,
                   transcription_result, whisper_result, obsvars, mvars,
                   extracted_audio, silence_threshold, startDisk, jsonSrc>>

\* lines 427 and 430-432: save_segments_cache, then the test for no speech
SaveCache ==
    /\ pc = "save_cache"
    /\ cache' = File(CacheDump(continuous_segments))
    /\ pc' = IF continuous_segments = <<>> THEN "nospeech" ELSE "loop"
    /\ UNCHANGED <<wav, json, srt, run, force_redetect, continuous_segments,
                   i, all_segments, completed_count, skipped_count,
                   failed_count, attempt, transcription_result, whisper_result,
                   obsvars, mvars, xvars>>

\* mutant: the failure is swallowed and the run goes on with no intervals
DetectFail_Swallowed ==
    /\ pc = "detect"
    /\ detector' = "failed"
    /\ continuous_segments' = <<>>
    /\ pc' = "save_cache"
    /\ UNCHANGED <<diskvars, run, force_redetect, i, all_segments,
                   completed_count, skipped_count, failed_count, attempt,
                   transcription_result, whisper_result, obsvars, mvars,
                   extracted_audio, silence_threshold, startDisk, jsonSrc>>

\* lines 54-78: the model cannot be loaded; the exception is raised again
\* and leaves main()
DetectFail ==
    /\ pc = "detect"
    /\ detector' = "failed"
    /\ pc' = "detect_failed"
    /\ UNCHANGED <<diskvars, run, force_redetect, continuous_segments, i,
                   all_segments, completed_count, skipped_count, failed_count,
                   attempt, transcription_result, whisper_result, obsvars, mvars,
                   extracted_audio, silence_threshold, startDisk, jsonSrc>>

InLoop == pc = "loop" /\ i < Len(continuous_segments)

\* lines 450-453
SkipSegment ==
    /\ InLoop
    /\ check_segment_completed(i, json)
    /\ whisper_result' = load_existing_result(i, json)
    /\ skipped_count' = skipped_count + 1
    /\ entryFile' = [entryFile EXCEPT ![i] = [seen |-> TRUE, file |-> json[i]]]
    /\ disp' = [disp EXCEPT ![i] = "skipped"]
    /\ pc' = "append"
    /\ UNCHANGED <<diskvars, run, force_redetect, continuous_segments, i,
                   all_segments, completed_count, failed_count, attempt,
                   transcription_result, slicerCalls, engineCalls, firstSuccess,
                   prevEnd, prevCues, prevSegs, prevEngine, curEngine,
                   engineSame, reachedDone, redone, mvars, xvars>>

\* lines 454-456
BeginSegment ==
    /\ InLoop
    /\ ~check_segment_completed(i, json)
    /\ entryFile' = [entryFile EXCEPT ![i] = [seen |-> TRUE, file |-> json[i]]]
    /\ pc' = "slice"
    /\ UNCHANGED <<diskvars, run, force_redetect, continuous_segments, i,
                   all_segments, completed_count, skipped_count, failed_count,
                   attempt, transcription_result, whisper_result, slicerCalls,
                   engineCalls, firstSuccess, disp, prevEnd, prevCues,
                   prevSegs, prevEngine, curEngine, engineSame, reachedDone,
                   redone, mvars, xvars>>

\* mutant: the slice is cut whether or not the file is there
CutAudio_Always ==
    /\ pc = "slice"
    /\ wav' = [wav EXCEPT ![i] = File(<<continuous_segments[i + 1]>>)]
    /\ slicerCalls' = [slicerCalls EXCEPT ![i] = @ + 1]
    /\ attempt' = 0
    /\ firstSuccess' = 0
    /\ pc' = "whisper"
    /\ UNCHANGED <<cache, json, srt, run, force_redetect, continuous_segments,
                   i, all_segments, completed_count, skipped_count,
                   failed_count, transcription_result, whisper_result,
                   engineCalls, entryFile, disp, prevEnd, prevCues, prevSegs,
                   prevEngine, curEngine, engineSame, reachedDone, redone, mvars,
                   xvars>>

\* lines 459-460: ffmpeg writes the slice
CutAudio ==
    /\ pc = "slice"
    /\ ~wav[i].exists
    /\ wav' = [wav EXCEPT ![i] = File(<<continuous_segments[i + 1]>>)]
    /\ slicerCalls' = [slicerCalls EXCEPT ![i] = @ + 1]
    /\ attempt' = 0
    /\ firstSuccess' = 0
    /\ pc' = "whisper"
    /\ UNCHANGED <<cache, json, srt, run, force_redetect, continuous_segments,
                   i, all_segments, completed_count, skipped_count,
                   failed_count, transcription_result, whisper_result,
                   engineCalls, entryFile, disp, prevEnd, prevCues, prevSegs,
                   prevEngine, curEngine, engineSame, reachedDone, redone, mvars, xvars>>

\* lines 459-460: ffmpeg fails; subprocess.run(check=True) raises and nothing
\* in main() catches it
CutAudioFail ==
    /\ pc = "slice"
    /\ ~wav[i].exists
    /\ slicerCalls' = [slicerCalls EXCEPT ![i] = @ + 1]
    /\ pc' = "slice_failed"
    /\ UNCHANGED <<diskvars, run, force_redetect, continuous_segments, i,
                   all_segments, completed_count, skipped_count, failed_count,
                   attempt, transcription_result, whisper_result, engineCalls,
                   firstSuccess, entryFile, disp, prevEnd, prevCues, prevSegs,
                   prevEngine, curEngine, engineSame, reachedDone, redone, mvars, xvars>>

\* lines 461-462
ReuseSlice ==
    /\ pc = "slice"
    /\ wav[i].exists
    /\ attempt' = 0
    /\ firstSuccess' = 0
    /\ pc' = "whisper"
    /\ UNCHANGED <<diskvars, run, force_redetect, continuous_segments, i,
                   all_segments, completed_count, skipped_count, failed_count,
                   transcription_result, whisper_result, slicerCalls,
                   engineCalls, entryFile, disp, prevEnd, prevCues, prevSegs,
                   prevEngine, curEngine, engineSame, reachedDone, redone, mvars, xvars>>

\* what one run of the whisper process can do
EngineOutcomes ==
    {[kind |-> k, result |-> EmptyResult] : k \in {"error", "nooutput", "malformed"}}
    \cup {[kind |-> "ok", result |-> [segments |-> t]] : t \in Transcripts}

\* segment_NNNN.json after the whisper process: it writes with json.dump's
\* default ensure_ascii
AfterWhisper(file, o) ==
    CASE o.kind = "ok" -> File(JsonDump(o.result, TRUE))
      [] o.kind = "malformed" -> File(<<OpenTok>>)
      [] OTHER -> file

\* lines 302-309: the except clause, then the next iteration or the give-up
AttemptFailed ==
    IF HasNextAttempt(attempt, MaxRetries)
    THEN /\ attempt' = attempt + 1
         /\ pc' = "whisper"
         /\ UNCHANGED whisper_result
    ELSE /\ whisper_result' = EmptyResult
         /\ pc' = "count"
         /\ UNCHANGED attempt

\* lines 279-291 of one attempt: the whisper process and the read of its output
RunWhisper ==
    /\ pc = "whisper"
    /\ \E o \in EngineOutcomes :
        LET file == AfterWhisper(json[i], o)
            loaded == JsonLoad(file)
        IN /\ json' = [json EXCEPT ![i] = file]
           /\ jsonSrc' = IF o.kind \in {"ok", "malformed"}
                         THEN [jsonSrc EXCEPT ![i] = wav[i].data[1]]
                         ELSE jsonSrc
           /\ curEngine' = [curEngine EXCEPT ![i] = o]
           /\ engineSame' = (engineSame /\ prevEngine[i] \in {NoOutcome, o})
           /\ IF o.kind # "error" /\ loaded.ok
              THEN /\ transcription_result' = loaded.result
                   /\ pc' = "reopen"
                   /\ UNCHANGED <<attempt, whisper_result>>
              ELSE /\ AttemptFailed
                   /\ UNCHANGED transcription_result
    /\ engineCalls' = [engineCalls EXCEPT ![i] = @ + 1]
    /\ redone' = IF i \in reachedDone THEN redone \cup {i} ELSE redone
    /\ UNCHANGED <<cache, wav, srt, run, force_redetect, continuous_segments,
                   i, all_segments, completed_count, skipped_count,
                   failed_count, slicerCalls, firstSuccess, entryFile, disp,
                   prevEnd, prevCues, prevSegs, prevEngine, reachedDone, mvars,
                   extracted_audio, silence_threshold, startDisk, detector>>

\* line 294: open(json_file, 'w') truncates the file
ReopenForWrite ==
    /\ pc = "reopen"
    /\ json' = [json EXCEPT ![i] = File(<<>>)]
    /\ pc' = "dump"
    /\ UNCHANGED <<cache, wav, srt, run, force_redetect, continuous_segments,
                   i, all_segments, completed_count, skipped_count,
                   failed_count, attempt, transcription_result, whisper_result,
                   obsvars, mvars, xvars>>

\* lines 295-300: json.dump(ensure_ascii=False), close, return
DumpResult ==
    /\ pc = "dump"
    /\ json' = [json EXCEPT ![i] = File(Rewritten(transcription_result))]
    /\ whisper_result' = transcription_result
    /\ firstSuccess' = IF firstSuccess = 0 THEN attempt + 1 ELSE firstSuccess
    /\ pc' = "count"
    /\ UNCHANGED <<cache, wav, srt, run, force_redetect, continuous_segments,
                   i, all_segments, completed_count, skipped_count,
                   failed_count, attempt, transcription_result, slicerCalls,
                   engineCalls, entryFile, disp, prevEnd, prevCues, prevSegs,
                   prevEngine, curEngine, engineSame, reachedDone, redone, mvars, xvars>>

\* mutant: a result with no entry is not counted
CountResult_FailedUncounted ==
    /\ pc = "count"
    /\ IF whisper_result.segments # <<>>
       THEN /\ completed_count' = completed_count + 1
            /\ disp' = [disp EXCEPT ![i] = "completed"]
            /\ reachedDone' = reachedDone \cup {i}
            /\ UNCHANGED failed_count
       ELSE /\ failed_count' = failed_count
            /\ disp' = [disp EXCEPT ![i] =
                            IF firstSuccess = 0 THEN "exhausted" ELSE "empty"]
            /\ UNCHANGED <<completed_count, reachedDone>>
    /\ pc' = "append"
    /\ UNCHANGED <<diskvars, run, force_redetect, continuous_segments, i,
                   all_segments, skipped_count, attempt, transcription_result,
                   whisper_result, slicerCalls, engineCalls, firstSuccess,
                   entryFile, prevEnd, prevCues, prevSegs, prevEngine,
                   curEngine, engineSame, redone, mvars, xvars>>

\* lines 472-475
CountResult ==
    /\ pc = "count"
    /\ IF whisper_result.segments # <<>>
       THEN /\ completed_count' = completed_count + 1
            /\ disp' = [disp EXCEPT ![i] = "completed"]
            /\ reachedDone' = reachedDone \cup {i}
            /\ UNCHANGED failed_count
       ELSE /\ failed_count' = failed_count + 1
            /\ disp' = [disp EXCEPT ![i] =
                            IF firstSuccess = 0 THEN "exhausted" ELSE "empty"]
            /\ UNCHANGED <<completed_count, reachedDone>>
    /\ pc' = "append"
    /\ UNCHANGED <<diskvars, run, force_redetect, continuous_segments, i,
                   all_segments, skipped_count, attempt, transcription_result,
                   whisper_result, slicerCalls, engineCalls, firstSuccess,
                   entryFile, prevEnd, prevCues, prevSegs, prevEngine,
                   curEngine, engineSame, redone, mvars, xvars>>

\* lines 478-485
AppendResult ==
    /\ pc = "append"
    /\ all_segments' = AppendSegment(all_segments, i, continuous_segments[i + 1],
                                     whisper_result)
    /\ i' = i + 1
    /\ pc' = "loop"
    /\ UNCHANGED <<diskvars, run, force_redetect, continuous_segments,
                   completed_count, skipped_count, failed_count, attempt,
                   transcription_result, whisper_result, obsvars, mvars, xvars>>

\* lines 487-498: the loop is over, the subtitle file is written
WriteSrt ==
    /\ pc = "loop"
    /\ i >= Len(continuous_segments)
    /\ srt' = File(generate_srt(all_segments))
    /\ pc' = "done"
    /\ UNCHANGED <<cache, wav, json, run, force_redetect, continuous_segments,
                   i, all_segments, completed_count, skipped_count,
                   failed_count, attempt, transcription_result, whisper_result,
                   obsvars, mvars, xvars>>

\* the process is terminated from outside; its memory is gone
Kill ==
    /\ pc \notin Stopped
    /\ pc' = "killed"
    /\ force_redetect' = FALSE
    /\ silence_threshold' = SilenceThreshold
    /\ continuous_segments' = <<>>
    /\ ResetRun
    /\ UNCHANGED <<diskvars, run, prevEnd, prevCues, prevSegs, prevEngine,
                   curEngine, engineSame, reachedDone, redone, mvars,
                   extracted_audio, startDisk, detector, jsonSrc>>

\* the process is terminated while save_segments_cache is writing: the file
\* is left empty or cut short
KillDuringSave ==
    /\ pc = "save_cache"
    /\ \E content \in {<<>>} \cup ProperPrefixes(CacheDump(continuous_segments)) :
           cache' = File(content)
    /\ pc' = "killed"
    /\ force_redetect' = FALSE
    /\ silence_threshold' = SilenceThreshold
    /\ continuous_segments' = <<>>
    /\ ResetRun
    /\ UNCHANGED <<wav, json, srt, run, prevEnd, prevCues, prevSegs,
                   prevEngine, curEngine, engineSame, reachedDone, redone, mvars,
                   extracted_audio, startDisk, detector, jsonSrc>>

\* the process is terminated while json.dump is writing
KillDuringDump ==
    /\ pc = "dump"
    /\ \E content \in ProperPrefixes(Rewritten(transcription_result)) :
           json' = [json EXCEPT ![i] = File(content)]
    /\ pc' = "killed"
    /\ force_redetect' = FALSE
    /\ silence_threshold' = SilenceThreshold
    /\ continuous_segments' = <<>>
    /\ ResetRun
    /\ UNCHANGED <<cache, wav, srt, run, prevEnd, prevCues, prevSegs,
                   prevEngine, curEngine, engineSame, reachedDone, redone, mvars,
                   extracted_audio, startDisk, detector, jsonSrc>>

Next ==
    \/ StartRun
    \/ Detect
    \/ SaveCache
    \/ DetectFail
    \/ SkipSegment
    \/ BeginSegment
    \/ CutAudio
    \/ CutAudioFail
    \/ ReuseSlice
    \/ RunWhisper
    \/ ReopenForWrite
    \/ DumpResult
    \/ CountResult
    \/ AppendResult
    \/ WriteSrt
    \/ Kill
    \/ KillDuringDump
    \/ KillDuringSave

Spec == Init /\ [][Next]_vars

(***************************************************************************)
(* Properties of the driver (checked under Spec).                          *)
(***************************************************************************)
\* a non-empty transcript file exists
NonEmptyFile(f) == f.exists /\ f.data # <<>>

\* the driver has been at index x in this run and found the segment done
FoundDone(x) == entryFile[x].seen /\ NonEmptyFile(entryFile[x].file)

Transcribed == {"completed", "exhausted", "empty"}

\* C1: a segment whose non-empty transcript file exists when the driver
\* reaches it is skipped: neither the slicer nor the engine runs for it in
\* this run, the file is left as it was, the result is what the file holds
\* (the empty fallback if it does not load), and it is counted as skipped
\* and in no other counter.
C1_DoneSegmentSkipped ==
    /\ \A x \in Idx :
        FoundDone(x) =>
            /\ slicerCalls[x] = 0
            /\ engineCalls[x] = 0
            /\ disp[x] = "skipped"
            /\ json[x] = entryFile[x].file
            /\ (x < Len(all_segments)) =>
                   all_segments[x + 1].whisper_result =
                       (LET r == JsonLoad(entryFile[x].file) IN
                        IF r.ok THEN r.result ELSE EmptyResult)
    /\ skipped_count = Cardinality({x \in Idx : disp[x] = "skipped"})
    /\ completed_count + failed_count =
           Cardinality({x \in Idx : disp[x] \in Transcribed})

C1_Witness ==
    /\ pc = "done"
    /\ \E x \in Idx :
        /\ FoundDone(x)
        /\ all_segments[x + 1].whisper_result.segments # <<>>
        /\ skipped_count = 1
        /\ completed_count = 1

\* C2: a run that follows a completed run, uses the same interval list and
\* meets an engine that answers for each slice as it last did in that run,
\* writes the cue list the completed run wrote, and does not run the engine
\* for any segment it found done.
C2_ResumeEquivalence ==
    (pc = "done" /\ prevEnd = "done" /\ continuous_segments = prevSegs /\ engineSame) =>
        /\ srt.data = prevCues
        /\ \A x \in Idx : FoundDone(x) => engineCalls[x] = 0

C2_Witness ==
    /\ pc = "done"
    /\ prevEnd = "done"
    /\ continuous_segments = prevSegs
    /\ engineSame
    /\ Len(prevCues) >= 1
    /\ disp[0] = "exhausted"
    /\ disp[1] = "skipped"

\* C3: when transcribe_with_whisper returns, the engine has run exactly as
\* often as the position of the first attempt that succeeded, or exactly
\* max_retries times when none did; in that case the result is empty, the
\* segment gives no cue, and a run that ends by itself after it has written
\* the subtitle file.
C3_RetryBound ==
    /\ (pc = "whisper") => (engineCalls[i] = attempt /\ attempt < MaxRetries)
    /\ (pc = "count") =>
           IF firstSuccess # 0
           THEN engineCalls[i] = firstSuccess /\ firstSuccess <= MaxRetries
           ELSE engineCalls[i] = MaxRetries /\ whisper_result = EmptyResult
    /\ \A x \in Idx :
        (disp[x] = "exhausted") =>
            /\ engineCalls[x] = MaxRetries
            /\ (x < Len(all_segments)) =>
                 /\ all_segments[x + 1].whisper_result = EmptyResult
                 /\ generate_srt(<<all_segments[x + 1]>>) = <<>>
            /\ (pc = "done") => srt.exists

C3_Witness ==
    /\ pc = "done"
    /\ srt.exists
    /\ disp[0] = "exhausted"
    /\ disp[1] = "completed"
    /\ engineCalls[0] = MaxRetries
    /\ engineCalls[1] = 2

\* C4 as stated: no error of one segment's handling leaves the driver loop;
\* the process never ends on an error raised while a segment is handled.
C4_SegmentErrorsContained == pc # "slice_failed"

\* C5: when the driver loop is over, all_segments has one entry per interval
\* of the run's list, the entry at position k carrying index k and the start
\* and end of interval k.
C5_ResultsMatchIntervals ==
    /\ (pc \in {"loop", "slice", "whisper", "reopen", "dump", "count", "append"}) =>
           Len(all_segments) = i
    /\ (pc = "done") =>
        /\ Len(all_segments) = Len(continuous_segments)
        /\ \A k \in 1..Len(all_segments) :
            /\ all_segments[k].segment_index = k - 1
            /\ all_segments[k].segment_start_ms = continuous_segments[k][1]
            /\ all_segments[k].segment_end_ms = continuous_segments[k][2]

C5_Witness ==
    /\ pc = "done"
    /\ Len(continuous_segments) = 2
    /\ disp[0] = "skipped"
    /\ disp[1] = "exhausted"

\* C6: a segment that was counted as newly transcribed (DONE) in some run
\* has, from then on and across terminations, a non-empty transcript file
\* that loads to a non-empty transcript, and the engine never runs for it
\* again.
C6_DonePersisted ==
    /\ \A x \in reachedDone :
        /\ check_segment_completed(x, json)
        /\ JsonLoad(json[x]).ok
        /\ JsonLoad(json[x]).result.segments # <<>>
    /\ redone = {}

C6_Witness ==
    /\ prevEnd = "killed"
    /\ pc = "append"
    /\ i \in reachedDone
    /\ disp[i] = "skipped"
    /\ engineCalls[i] = 0

\* the files of the run directory are as the current process found them
DiskAsFound ==
    /\ cache = startDisk.cache
    /\ wav = startDisk.wav
    /\ json = startDisk.json
    /\ srt = startDisk.srt

\* C14: when the detector fails, the run ends there with the error: the
\* interval cache is not written, no segment is sliced or transcribed, no
\* result is collected and the subtitle file is not written.
C14_DetectorFailureFatal ==
    detector = "failed" =>
        /\ pc = "detect_failed"
        /\ DiskAsFound
        /\ all_segments = <<>>
        /\ \A x \in Idx : slicerCalls[x] = 0 /\ engineCalls[x] = 0

\* the detector fails in a forced re-detection over a directory that holds
\* the cache and the subtitle file of a finished run
C14_Witness ==
    /\ detector = "failed"
    /\ pc = "detect_failed"
    /\ force_redetect
    /\ prevEnd = "done"
    /\ startDisk.cache.exists
    /\ startDisk.srt.exists

\* the interval cache the current process found can be loaded
FoundLoadable == startDisk.cache.exists /\ CacheLoad(startDisk.cache).ok

\* C15: in a process that found a loadable interval cache and was not told
\* to re-detect, the detector is not invoked, the interval list is the cached
\* one and the cache file stays as found.  The cache file differs from the
\* one found only after the detector has answered in this run, which happens
\* only on a first run, an unreadable cache or force-redetect; once written
\* it holds exactly the detected list, through the whole segment loop.
C15_DetectOnceUnlessForced ==
    pc \notin {"off", "killed"} =>
        /\ (FoundLoadable /\ ~force_redetect) =>
              /\ detector = "idle"
              /\ continuous_segments = CacheLoad(startDisk.cache).segments
              /\ cache = startDisk.cache
        /\ detector # "idle" => (force_redetect \/ ~FoundLoadable)
        /\ cache # startDisk.cache => detector = "answered"
        /\ (detector = "answered" /\ pc # "save_cache") =>
              cache = File(CacheDump(continuous_segments))
        /\ pc \in {"detect", "save_cache", "detect_failed"} => DiskAsFound

\* a second run finds the cache of the first, does not detect, and goes
\* through the segment loop with the cached list of two intervals
C15_Witness ==
    /\ run = 2
    /\ pc = "done"
    /\ ~force_redetect
    /\ detector = "idle"
    /\ FoundLoadable
    /\ Len(continuous_segments) = 2
    /\ cache = startDisk.cache

\* a run finds a cache file cut short by a terminated save and detects again
C15_UnreadableCacheSeen ==
    /\ ~force_redetect
    /\ startDisk.cache.exists
    /\ ~FoundLoadable
    /\ detector = "answered"
    /\ pc = "loop"

Handled(x) == disp[x] \in {"completed", "exhausted", "empty"}

\* C16: the slicer is called for a segment at most once in a run, and only
\* when the process found no slice file for it; a segment that is not done
\* reaches the engine with its slice file present, cut in this run if there
\* was none and left as found otherwise, and every segment the driver has
\* handled without skipping had the engine run on it.
C16_SliceReuse ==
    \A x \in Idx :
        /\ slicerCalls[x] <= 1
        /\ slicerCalls[x] = 1 => ~startDisk.wav[x].exists
        /\ (pc = "whisper" /\ x = i) => wav[x].exists
        /\ engineCalls[x] >= 1 =>
              /\ wav[x].exists
              /\ slicerCalls[x] = IF startDisk.wav[x].exists THEN 0 ELSE 1
              /\ startDisk.wav[x].exists => wav[x] = startDisk.wav[x]
        /\ Handled(x) => engineCalls[x] >= 1

\* in one run, segment 0 is transcribed from the slice an earlier run left
\* and segment 1 from a slice cut in this run
C16_Witness ==
    /\ pc = "done"
    /\ Handled(0) /\ Handled(1)
    /\ startDisk.wav[0].exists /\ slicerCalls[0] = 0 /\ engineCalls[0] >= 1
    /\ ~startDisk.wav[1].exists /\ slicerCalls[1] = 1 /\ engineCalls[1] >= 1

\* C17: every transcript the driver loads for an index it skips was made
\* from the slice of the interval at that index of the interval list of this
\* run.
C17_CheckpointMatchesInterval ==
    \A x \in Idx :
        (disp[x] = "skipped" /\ x < Len(continuous_segments)) =>
            jsonSrc[x] = continuous_segments[x + 1]

\* C18: a segment counted as failed in this run (retries exhausted, or an
\* engine result with no entry) is not reported done by
\* check_segment_completed.
C18_FailedNotDone ==
    \A x \in Idx :
        disp[x] \in {"exhausted", "empty"} => ~check_segment_completed(x, json)

\* C19: whenever check_segment_completed holds for an index, the transcript
\* file of that index loads, so load_existing_result does not fall back to
\* the empty result.
C19_MarkerLoads ==
    \A x \in Idx : check_segment_completed(x, json) => JsonLoad(json[x]).ok

\* the indices of the run's interval list
Positions == 0..(Len(continuous_segments) - 1)
\* the transcript the driver collected for index x has at least one entry
HasEntries(x) == all_segments[x + 1].whisper_result.segments # <<>>

\* C20: at the head of the driver loop the three counters add up to the
\* number of segments handled so far; when the loop is over they add up to
\* the number of intervals, skipped counting the segments found done on
\* entry, newly-transcribed the others whose transcript has an entry, and
\* failed the others whose transcript has none.
C20_CounterPartition ==
    /\ pc \in {"loop", "done"} =>
           completed_count + skipped_count + failed_count = i
    /\ pc = "done" =>
        /\ i = Len(continuous_segments)
        /\ skipped_count = Cardinality({x \in Positions : FoundDone(x)})
        /\ completed_count =
               Cardinality({x \in Positions : ~FoundDone(x) /\ HasEntries(x)})
        /\ failed_count =
               Cardinality({x \in Positions : ~FoundDone(x) /\ ~HasEntries(x)})

\* a finished run over two intervals with one segment skipped and one failed
C20_Witness ==
    /\ pc = "done"
    /\ Len(continuous_segments) = 2
    /\ skipped_count = 1
    /\ failed_count = 1
    /\ completed_count = 0

=============================================================================
